---------------------------- MODULE Spec2Model ----------------------------
(***************************************************************************)
(* A model of llvmlite's C bridge: the attribute iteration bridge          *)
(* (ffi/attribute.cpp) and the transform bridge (ffi/transforms.cpp).      *)
(*                                                                         *)
(* Pointers are modelled as naturals, NULL being 0.  A native iterator is  *)
(* a pair [arr, idx]: the array it walks and a 1-based position in it.     *)
(* The process is "running" until a fatal path is taken: "fatal" is        *)
(* llvm::report_fatal_error or a failed assert (both print a diagnostic    *)
(* and abort), "crashed" is a trap without diagnostic, "undefined" is      *)
(* execution continuing after undefined behaviour.  Nothing is modelled    *)
(* after the process left "running".                                       *)
(***************************************************************************)
EXTENDS Naturals, Integers, Sequences, FiniteSets, TLC

\* -------------------------------------------------------------- bounds
MaxGroups == 2
MaxAttrs == 1
MaxCursors == 3
MaxExtract == 2
MaxNameLen == 2

NULL == 0

VARIABLES
    status,      \* "running" | "fatal" | "crashed" | "undefined"
    lastOp,      \* the last exported call: its name, arguments, result
    \* ---- attribute iteration bridge
    attrList,    \* the llvm::AttributeList of the function / call / invoke
    attrSet,     \* the llvm::AttributeSet of the argument / global
    heap,        \* live cursor objects, by address
    created,     \* (history) addresses handed out by new
    disposed,    \* (history) cursors passed to a dispose call
    nadv,        \* (history) advances made on each live cursor, saturating
    over,        \* (history) the collection each live cursor was created over
    \* ---- attribute classification
    subject,     \* (history) the attribute the last queries were about
    answers,     \* (history) the queries asked about subject, and answered true
    \* ---- pass manager builder
    pmb,         \* the llvm::PassManagerBuilder object (EmptyFn: none)
    lastSet,     \* (history) property -> the value last passed to its setter
    \* ---- basic block extraction
    fnName,      \* the module's functions: function id -> name
    blockParent, \* basic block id -> the function it is in
    eligible,    \* basic block id -> CodeExtractor::isEligible
    LastUnique,  \* ValueSymbolTable::LastUnique of the module
    isNVPTX,     \* the module's target triple is NVPTX
    nExtract,    \* extractions made so far (bounded by MaxExtract)
    foreign      \* (history) some call passed a block of another function

attrVars == <<attrList, attrSet, heap, created, disposed, nadv, over>>
kindVars == <<subject, answers>>
pmbVars == <<pmb, lastSet>>
extractVars ==
    <<fnName, blockParent, eligible, LastUnique, isNVPTX, nExtract, foreign>>
vars == <<status, lastOp, attrVars, kindVars, pmbVars, extractVars>>

\* ------------------------------------------------------------- values
\* The kinds of llvm::Value a handle (LLVMValueRef) may refer to.
ValueKinds ==
    {"Function", "Argument", "CallInst", "InvokeInst", "GlobalVariable",
     "BasicBlock"}

\* llvm::AttributeImpl::AttrEntryKind: the one storage kind of an attribute.
AttrEntryKind ==
    <<"EnumAttrEntry", "IntAttrEntry", "StringAttrEntry", "TypeAttrEntry">>

\* Attribute handles (LLVMAttributeRef): uniqued, non-null AttributeImpl
\* pointers of the context, two of each kind.
Attributes == 1 .. (2 * Len(AttrEntryKind))

KindID(A) == AttrEntryKind[((A - 1) % Len(AttrEntryKind)) + 1]

\* Attribute sets of up to MaxAttrs attributes, and attribute lists of up to
\* MaxGroups sets (empty sets included: a list holds a slot per index).
AttrSets == {[k \in 1 .. m |-> k] : m \in 0 .. MaxAttrs}

AttrLists == UNION {[1 .. n -> AttrSets] : n \in 0 .. MaxGroups}

\* attrs.begin()
AttrBegin(attrs) == [arr |-> attrs, idx |-> 1]

\* Faulty variant: attrs.begin() passed for the end as well
AttrEnd_begin(attrs) == [arr |-> attrs, idx |-> 1]

\* attrs.end()
AttrEnd(attrs) == [arr |-> attrs, idx |-> Len(attrs) + 1]

\* struct AttributeListIterator {cur, end}
AttributeListIterator(cur, end) == [type |-> "list", cur |-> cur, end |-> end]

\* struct AttributeSetIterator {cur, end}
AttributeSetIterator(cur, end) == [type |-> "set", cur |-> cur, end |-> end]

\* new: a fresh address, never one handed out before.
NewAddr == Cardinality(created) + 1

Alloc(obj) == heap' = [a \in DOMAIN heap \cup {NewAddr} |->
                          IF a = NewAddr THEN obj ELSE heap[a]]

Free(a) == heap' = [b \in DOMAIN heap \ {a} |-> heap[b]]

Sat(n, top) == IF n < top THEN n + 1 ELSE n

\* The function of empty domain: no object, no entry.
EmptyFn == [x \in {} |-> NULL]


\* --------------------------------------------- attribute iteration bridge
ListValueKinds == {"Function", "CallInst", "InvokeInst"}

\* getAttributes() / getParamAttrs(argno) of the entity a handle refers to.
getAttributes(V) == IF V.kind \in ListValueKinds THEN attrList ELSE attrSet

Values == [kind : ValueKinds]

Op(name, arg, ret, diag) == [op |-> name, arg |-> arg, ret |-> ret, diag |-> diag]

\* llvm::unwrap<T>(V) is cast<T>(unwrap(V)): an assert(isa<T>(V)) and a
\* static_cast.  With a value of another class the assert aborts with its
\* diagnostic; compiled with NDEBUG the cast is unchecked and the use of the
\* result is undefined behaviour: a trap, or execution going on with an
\* object that is not what the code takes it for.  The cursors go with the
\* process.
BadCast(name, V) ==
    /\ \/ /\ status' = "fatal"
          /\ lastOp' = Op(name, V, NULL,
                          "cast<Ty>() argument of incompatible type!")
       \/ /\ status' \in {"crashed", "undefined"}
          /\ lastOp' = Op(name, V, NULL, "")
    /\ heap' = EmptyFn
    /\ created' = {}
    /\ disposed' = {}
    /\ nadv' = EmptyFn
    /\ over' = EmptyFn
    /\ UNCHANGED <<attrList, attrSet>>

\* wrap(new ...Iterator(attrs.begin(), attrs.end())), with the history of it.
NewCursor(name, V, obj, attrs) ==
    /\ Alloc(obj)
    /\ created' = created \cup {NewAddr}
    /\ nadv' = [a \in DOMAIN nadv \cup {NewAddr} |->
                   IF a = NewAddr THEN 0 ELSE nadv[a]]
    /\ over' = [a \in DOMAIN over \cup {NewAddr} |->
                   IF a = NewAddr THEN attrs ELSE over[a]]
    /\ lastOp' = Op(name, V, NewAddr, "")
    /\ UNCHANGED <<status, disposed, attrList, attrSet>>

\* What a call of one component leaves alone: the other components.
OthersOfAttr == UNCHANGED <<kindVars, pmbVars, extractVars>>

OthersOfKind == UNCHANGED <<attrVars, pmbVars, extractVars>>

OthersOfPmb == UNCHANGED <<attrVars, kindVars, extractVars>>

OthersOfExtract == UNCHANGED <<attrVars, kindVars, pmbVars>>

LLVMPY_FunctionAttributesIter(F) ==
    /\ status = "running"
    /\ Cardinality(created) < MaxCursors
    /\ IF F.kind = "Function"
       THEN LET attrs == getAttributes(F)
            IN NewCursor("LLVMPY_FunctionAttributesIter", F,
                   AttributeListIterator(AttrBegin(attrs), AttrEnd(attrs)),
                   attrs)
       ELSE BadCast("LLVMPY_FunctionAttributesIter", F)
    /\ OthersOfAttr

LLVMPY_ArgumentAttributesIter(A) ==
    /\ status = "running"
    /\ Cardinality(created) < MaxCursors
    /\ IF A.kind = "Argument"
       THEN LET attrs == getAttributes(A)
            IN NewCursor("LLVMPY_ArgumentAttributesIter", A,
                   AttributeSetIterator(AttrBegin(attrs), AttrEnd(attrs)),
                   attrs)
       ELSE BadCast("LLVMPY_ArgumentAttributesIter", A)
    /\ OthersOfAttr

LLVMPY_CallInstAttributesIter(C) ==
    /\ status = "running"
    /\ Cardinality(created) < MaxCursors
    /\ IF C.kind = "CallInst"
       THEN LET attrs == getAttributes(C)
            IN NewCursor("LLVMPY_CallInstAttributesIter", C,
                   AttributeListIterator(AttrBegin(attrs), AttrEnd(attrs)),
                   attrs)
       ELSE BadCast("LLVMPY_CallInstAttributesIter", C)
    /\ OthersOfAttr

LLVMPY_InvokeInstAttributesIter(C) ==
    /\ status = "running"
    /\ Cardinality(created) < MaxCursors
    /\ IF C.kind = "InvokeInst"
       THEN LET attrs == getAttributes(C)
            IN NewCursor("LLVMPY_InvokeInstAttributesIter", C,
                   AttributeListIterator(AttrBegin(attrs), AttrEnd(attrs)),
                   attrs)
       ELSE BadCast("LLVMPY_InvokeInstAttributesIter", C)
    /\ OthersOfAttr

LLVMPY_GlobalAttributesIter(G) ==
    /\ status = "running"
    /\ Cardinality(created) < MaxCursors
    /\ IF G.kind = "GlobalVariable"
       THEN LET attrs == getAttributes(G)
            IN NewCursor("LLVMPY_GlobalAttributesIter", G,
                   AttributeSetIterator(AttrBegin(attrs), AttrEnd(attrs)),
                   attrs)
       ELSE BadCast("LLVMPY_GlobalAttributesIter", G)
    /\ OthersOfAttr

\* Live cursors of one type: what a caller may pass as a cursor handle.
Cursors(type) == {a \in DOMAIN heap : heap[a].type = type}

\* Faulty variant: the increment left out
ListCurIncrement_stuck(iter) == iter

\* iter->cur++ of the list cursor
ListCurIncrement(iter) == [iter EXCEPT !.cur.idx = @ + 1]

\* Faulty variant: the increment left out
SetCurIncrement_stuck(iter) == iter

\* iter->cur++ of the set cursor
SetCurIncrement(iter) == [iter EXCEPT !.cur.idx = @ + 1]

\* Faulty variant: the cursor released when it is found at its end
ListIterAtEnd_release(GI) == Free(GI)

\* The else branch of the advance: return NULL, the cursor stays allocated.
ListIterAtEnd(GI) == heap' = heap

Advanced(GI) ==
    nadv' = [nadv EXCEPT ![GI] = Sat(@, Len(over[GI]) + 1)]

LLVMPY_AttributeListIterNext(GI) ==
    /\ status = "running"
    /\ LET iter == heap[GI]
       IN IF iter.cur # iter.end
          THEN LET attrs == iter.cur.arr[iter.cur.idx]
                   obj == AttributeSetIterator(AttrBegin(attrs), AttrEnd(attrs))
               IN /\ Cardinality(created) < MaxCursors
                  /\ heap' = [a \in DOMAIN heap \cup {NewAddr} |->
                                 IF a = NewAddr THEN obj
                                 ELSE IF a = GI THEN ListCurIncrement(iter)
                                 ELSE heap[a]]
                  /\ created' = created \cup {NewAddr}
                  /\ nadv' = [a \in DOMAIN nadv \cup {NewAddr} |->
                                 IF a = NewAddr THEN 0
                                 ELSE IF a = GI
                                 THEN Sat(nadv[a], Len(over[a]) + 1)
                                 ELSE nadv[a]]
                  /\ over' = [a \in DOMAIN over \cup {NewAddr} |->
                                 IF a = NewAddr THEN attrs ELSE over[a]]
                  /\ lastOp' = Op("LLVMPY_AttributeListIterNext", GI, NewAddr, "")
          ELSE /\ ListIterAtEnd(GI)
               /\ Advanced(GI)
               /\ lastOp' = Op("LLVMPY_AttributeListIterNext", GI, NULL, "")
               /\ UNCHANGED <<created, over>>
    /\ UNCHANGED <<status, disposed, attrList, attrSet>>
    /\ OthersOfAttr

LLVMPY_AttributeSetIterNext(GI) ==
    /\ status = "running"
    /\ LET iter == heap[GI]
       IN IF iter.cur # iter.end
          THEN LET attr == iter.cur.arr[iter.cur.idx]
               IN /\ heap' = [heap EXCEPT ![GI] = SetCurIncrement(iter)]
                  /\ lastOp' = Op("LLVMPY_AttributeSetIterNext", GI, attr, "")
          ELSE /\ heap' = heap
               /\ lastOp' = Op("LLVMPY_AttributeSetIterNext", GI, NULL, "")
    /\ Advanced(GI)
    /\ UNCHANGED <<status, created, disposed, over, attrList, attrSet>>
    /\ OthersOfAttr

\* delete llvm::unwrap(GI), with the history of it.
Delete(GI) ==
    /\ Free(GI)
    /\ disposed' = disposed \cup {GI}
    /\ nadv' = [a \in DOMAIN nadv \ {GI} |-> nadv[a]]
    /\ over' = [a \in DOMAIN over \ {GI} |-> over[a]]

LLVMPY_DisposeAttributeListIter(GI) ==
    /\ status = "running"
    /\ Delete(GI)
    /\ lastOp' = Op("LLVMPY_DisposeAttributeListIter", GI, NULL, "")
    /\ UNCHANGED <<status, created, attrList, attrSet>>
    /\ OthersOfAttr

LLVMPY_DisposeAttributeSetIter(GI) ==
    /\ status = "running"
    /\ Delete(GI)
    /\ lastOp' = Op("LLVMPY_DisposeAttributeSetIter", GI, NULL, "")
    /\ UNCHANGED <<status, created, attrList, attrSet>>
    /\ OthersOfAttr

NextAttr ==
    \/ \E V \in Values : LLVMPY_FunctionAttributesIter(V)
    \/ \E V \in Values : LLVMPY_ArgumentAttributesIter(V)
    \/ \E V \in Values : LLVMPY_CallInstAttributesIter(V)
    \/ \E V \in Values : LLVMPY_InvokeInstAttributesIter(V)
    \/ \E V \in Values : LLVMPY_GlobalAttributesIter(V)
    \/ \E GI \in Cursors("list") : LLVMPY_AttributeListIterNext(GI)
    \/ \E GI \in Cursors("set") : LLVMPY_AttributeSetIterNext(GI)
    \/ \E GI \in Cursors("list") : LLVMPY_DisposeAttributeListIter(GI)
    \/ \E GI \in Cursors("set") : LLVMPY_DisposeAttributeSetIter(GI)

\* ------------------------------------------------ attribute classification
\* llvm::Attribute::is*Attribute(): pImpl && pImpl->is*Attribute(), the
\* latter comparing the one KindID of the AttributeImpl.
isTypeAttribute(A) == A # NULL /\ KindID(A) = "TypeAttrEntry"

\* Faulty variant: an enum attribute taken for an int attribute as well
isIntAttribute_orEnum(A) ==
    A # NULL /\ KindID(A) \in {"IntAttrEntry", "EnumAttrEntry"}

isIntAttribute(A) == A # NULL /\ KindID(A) = "IntAttrEntry"

isEnumAttribute(A) == A # NULL /\ KindID(A) = "EnumAttrEntry"

isStringAttribute(A) == A # NULL /\ KindID(A) = "StringAttrEntry"

Queries ==
    {"LLVMPY_AttributeIsType", "LLVMPY_AttributeIsInt",
     "LLVMPY_AttributeIsEnum", "LLVMPY_AttributeIsString"}

\* One classification query, and the record of what it answered.
Query(name, A, ret) ==
    /\ status = "running"
    /\ lastOp' = Op(name, A, ret, "")
    /\ subject' = A
    /\ LET old == IF A = subject THEN answers
                  ELSE [asked |-> {}, yes |-> {}]
       IN answers' = [asked |-> old.asked \cup {name},
                      yes |-> IF ret THEN old.yes \cup {name}
                              ELSE old.yes \ {name}]
    /\ UNCHANGED status
    /\ OthersOfKind

LLVMPY_AttributeIsType(A) ==
    Query("LLVMPY_AttributeIsType", A, isTypeAttribute(A))

LLVMPY_AttributeIsInt(A) ==
    Query("LLVMPY_AttributeIsInt", A, isIntAttribute(A))

LLVMPY_AttributeIsEnum(A) ==
    Query("LLVMPY_AttributeIsEnum", A, isEnumAttribute(A))

LLVMPY_AttributeIsString(A) ==
    Query("LLVMPY_AttributeIsString", A, isStringAttribute(A))

NextKind ==
    \/ \E A \in Attributes : LLVMPY_AttributeIsType(A)
    \/ \E A \in Attributes : LLVMPY_AttributeIsInt(A)
    \/ \E A \in Attributes : LLVMPY_AttributeIsEnum(A)
    \/ \E A \in Attributes : LLVMPY_AttributeIsString(A)

\* ---------------------------------------------------- pass manager builder
\* Values of an unsigned and of an int / LLVMBool argument (the largest being
\* the largest integer the model checker holds).
UnsignedValues == {0, 1, 3, 2147483647}

IntValues == {-1, 0, 1, 2}

\* The implicit conversions of C++ between int and bool.
IntToBool(v) == v # 0

BoolToInt(b) == IF b THEN 1 ELSE 0

Props ==
    {"OptLevel", "SizeLevel", "DisableUnrollLoops", "LoopVectorize",
     "SLPVectorize"}

\* llvm::PassManagerBuilder() as LLVMPassManagerBuilderCreate constructs it.
\* LoopVectorize starts as the command line option EnableLoopVectorization.
LLVMPY_PassManagerBuilderCreate ==
    /\ status = "running"
    /\ DOMAIN pmb = {}
    /\ \E lv \in BOOLEAN :
          pmb' = [OptLevel |-> 2, SizeLevel |-> 0, DisableUnrollLoops |-> FALSE,
                  LoopVectorize |-> lv, SLPVectorize |-> FALSE,
                  Inliner |-> {}]
    /\ lastOp' = Op("LLVMPY_PassManagerBuilderCreate", NULL, 1, "")
    /\ UNCHANGED <<status, lastSet>>
    /\ OthersOfPmb

LLVMPY_PassManagerBuilderDispose ==
    /\ status = "running"
    /\ DOMAIN pmb # {}
    /\ pmb' = EmptyFn
    /\ lastSet' = EmptyFn
    /\ lastOp' = Op("LLVMPY_PassManagerBuilderDispose", 1, NULL, "")
    /\ UNCHANGED status
    /\ OthersOfPmb

\* A call that reads or forwards the builder and leaves its fields alone.
PmbCall(name, arg, ret) ==
    /\ status = "running"
    /\ DOMAIN pmb # {}
    /\ lastOp' = Op(name, arg, ret, "")
    /\ UNCHANGED <<status, pmb, lastSet>>
    /\ OthersOfPmb

\* A setter: the field assigned, and the record of the value passed.
PmbSet(name, prop, arg, stored) ==
    /\ status = "running"
    /\ DOMAIN pmb # {}
    /\ pmb' = [pmb EXCEPT ![prop] = stored]
    /\ lastSet' = [p \in DOMAIN lastSet \cup {prop} |->
                      IF p = prop THEN arg ELSE lastSet[p]]
    /\ lastOp' = Op(name, arg, NULL, "")
    /\ UNCHANGED status
    /\ OthersOfPmb

LLVMPY_PassManagerBuilderPopulateModulePassManager ==
    PmbCall("LLVMPY_PassManagerBuilderPopulateModulePassManager", 1, NULL)

LLVMPY_PassManagerBuilderPopulateFunctionPassManager ==
    PmbCall("LLVMPY_PassManagerBuilderPopulateFunctionPassManager", 1, NULL)

LLVMPY_PassManagerBuilderGetOptLevel ==
    PmbCall("LLVMPY_PassManagerBuilderGetOptLevel", "OptLevel", pmb.OptLevel)

\* Faulty variant: the level clamped to the highest level there is
StoreOptLevel_clamped(OptLevel) == IF OptLevel > 3 THEN 3 ELSE OptLevel

\* Builder->OptLevel = OptLevel, an unsigned field.
StoreOptLevel(OptLevel) == OptLevel

LLVMPY_PassManagerBuilderSetOptLevel(OptLevel) ==
    PmbSet("LLVMPY_PassManagerBuilderSetOptLevel", "OptLevel", OptLevel,
           StoreOptLevel(OptLevel))

LLVMPY_PassManagerBuilderGetSizeLevel ==
    PmbCall("LLVMPY_PassManagerBuilderGetSizeLevel", "SizeLevel", pmb.SizeLevel)

LLVMPY_PassManagerBuilderSetSizeLevel(SizeLevel) ==
    PmbSet("LLVMPY_PassManagerBuilderSetSizeLevel", "SizeLevel", SizeLevel,
           SizeLevel)

\* The three flags are bool fields of llvm::PassManagerBuilder: an int
\* assigned to them is converted to bool, and read back as 0 or 1.
LLVMPY_PassManagerBuilderGetDisableUnrollLoops ==
    PmbCall("LLVMPY_PassManagerBuilderGetDisableUnrollLoops",
            "DisableUnrollLoops", BoolToInt(pmb.DisableUnrollLoops))

LLVMPY_PassManagerBuilderSetDisableUnrollLoops(Value) ==
    PmbSet("LLVMPY_PassManagerBuilderSetDisableUnrollLoops",
           "DisableUnrollLoops", Value, IntToBool(Value))

LLVMPY_PassManagerBuilderUseInlinerWithThreshold(Threshold) ==
    /\ status = "running"
    /\ DOMAIN pmb # {}
    /\ pmb' = [pmb EXCEPT !.Inliner = {Threshold}]
    /\ lastOp' = Op("LLVMPY_PassManagerBuilderUseInlinerWithThreshold",
                    Threshold, NULL, "")
    /\ UNCHANGED <<status, lastSet>>
    /\ OthersOfPmb

LLVMPY_PassManagerBuilderSetLoopVectorize(Value) ==
    PmbSet("LLVMPY_PassManagerBuilderSetLoopVectorize", "LoopVectorize",
           Value, IntToBool(Value))

LLVMPY_PassManagerBuilderGetLoopVectorize ==
    PmbCall("LLVMPY_PassManagerBuilderGetLoopVectorize", "LoopVectorize",
            BoolToInt(pmb.LoopVectorize))

LLVMPY_PassManagerBuilderSetSLPVectorize(Value) ==
    PmbSet("LLVMPY_PassManagerBuilderSetSLPVectorize", "SLPVectorize",
           Value, IntToBool(Value))

LLVMPY_PassManagerBuilderGetSLPVectorize ==
    PmbCall("LLVMPY_PassManagerBuilderGetSLPVectorize", "SLPVectorize",
            BoolToInt(pmb.SLPVectorize))

NextPMB ==
    \/ LLVMPY_PassManagerBuilderCreate
    \/ LLVMPY_PassManagerBuilderDispose
    \/ LLVMPY_PassManagerBuilderPopulateModulePassManager
    \/ LLVMPY_PassManagerBuilderPopulateFunctionPassManager
    \/ LLVMPY_PassManagerBuilderGetOptLevel
    \/ \E v \in UnsignedValues : LLVMPY_PassManagerBuilderSetOptLevel(v)
    \/ LLVMPY_PassManagerBuilderGetSizeLevel
    \/ \E v \in UnsignedValues : LLVMPY_PassManagerBuilderSetSizeLevel(v)
    \/ LLVMPY_PassManagerBuilderGetDisableUnrollLoops
    \/ \E v \in IntValues : LLVMPY_PassManagerBuilderSetDisableUnrollLoops(v)
    \/ \E v \in UnsignedValues :
          LLVMPY_PassManagerBuilderUseInlinerWithThreshold(v)
    \/ \E v \in IntValues : LLVMPY_PassManagerBuilderSetLoopVectorize(v)
    \/ LLVMPY_PassManagerBuilderGetLoopVectorize
    \/ \E v \in IntValues : LLVMPY_PassManagerBuilderSetSLPVectorize(v)
    \/ LLVMPY_PassManagerBuilderGetSLPVectorize

\* ---------------------------------------------------- basic block extraction
\* Names are sequences of characters; those of the module's functions
\* start with a letter.
NameChars == {"f", "."}

FunctionNames ==
    {n \in UNION {[1 .. l -> NameChars] : l \in 1 .. MaxNameLen} : n[1] # "."}

\* The module the extraction works in: two functions, the first of two basic
\* blocks and the second of one.
Functions == {1, 2}

Blocks == {1, 2, 3}

InitialParent == <<1, 1, 2>>

\* /* Suffix */ "bblock_extract"
Suffix == <<"b", "b", "l", "o", "c", "k", "_", "e", "x", "t", "r", "a", "c", "t">>

DigitChar == <<"0", "1", "2", "3", "4", "5", "6", "7", "8", "9">>

RECURSIVE Digits(_)
Digits(n) ==
    IF n < Len(DigitChar) THEN <<DigitChar[n + 1]>>
    ELSE Digits(n \div Len(DigitChar)) \o <<DigitChar[(n % Len(DigitChar)) + 1]>>

\* ValueSymbolTable::makeUniqueName: append the next number, after a '.' for
\* a global value unless the target is NVPTX, until the name is free.
RECURSIVE makeUniqueName(_, _, _)
makeUniqueName(taken, Name, LU) ==
    LET UniqueName == Name \o (IF isNVPTX THEN <<>> ELSE <<".">>) \o Digits(LU + 1)
    IN IF UniqueName \notin taken
       THEN [name |-> UniqueName, LastUnique |-> LU + 1]
       ELSE makeUniqueName(taken, Name, LU + 1)

\* ValueSymbolTable::createValueName: the name as asked when it is free.
createValueName(taken, Name, LU) ==
    IF Name \notin taken THEN [name |-> Name, LastUnique |-> LU]
    ELSE makeUniqueName(taken, Name, LU)

\* llvm::Value::setName of a function held in the module's symbol table:
\* nothing when the name is the one it has, else its name is released and the
\* new one entered.
setName(names, f, Name, LU) ==
    IF names[f] = Name THEN [name |-> Name, LastUnique |-> LU]
    ELSE createValueName({names[g] : g \in DOMAIN names \ {f}}, Name, LU)

\* std::replace(FnName.begin(), FnName.end(), '.', '_')
Replace(FnName) ==
    [i \in 1 .. Len(FnName) |-> IF FnName[i] = "." THEN "_" ELSE FnName[i]]

ExtractValues ==
    {[kind |-> "Function", id |-> f] : f \in DOMAIN fnName}
        \cup {[kind |-> "BasicBlock", id |-> b] : b \in Blocks}
        \cup {[kind |-> "GlobalVariable", id |-> 1]}

\* The record of a call: parent is the function the block was in when
\* passed (NULL when the handle is no block), outlined the function
\* extractCodeRegion returned (NULL for nullptr), steps the statements run
\* from the extraction on.
ExtractOp(Func, BBlock, ret, outlined, diag, steps) ==
    [op |-> "LLVMPY_ExtractBasicBlock", arg |-> <<Func, BBlock>>, ret |-> ret,
     parent |-> IF BBlock.kind = "BasicBlock" THEN blockParent[BBlock.id]
                ELSE NULL,
     outlined |-> outlined, diag |-> diag, steps |-> steps]

Foreign(Func, BBlock) ==
    foreign' = (foreign \/ blockParent[BBlock.id] # Func.id)

LLVMPY_ExtractBasicBlock(Func, BBlock) ==
    /\ status = "running"
    /\ IF Func.kind # "Function"
       THEN \* dyn_cast<Function> yields null
            /\ status' = "fatal"
            /\ lastOp' = ExtractOp(Func, BBlock, NULL, NULL, "Expected function",
                                   <<"report_fatal_error">>)
            /\ UNCHANGED extractVars
       ELSE IF BBlock.kind # "BasicBlock"
       THEN \* dyn_cast<BasicBlock> yields null
            /\ status' = "fatal"
            /\ lastOp' = ExtractOp(Func, BBlock, NULL, NULL,
                                   "Expected basic block",
                                   <<"report_fatal_error">>)
            /\ UNCHANGED extractVars
       ELSE IF eligible[BBlock.id]
       THEN \* extractCodeRegion outlines the block from the function it is in
            /\ nExtract < MaxExtract
            /\ LET oldFunction == blockParent[BBlock.id]
                   Outlined == Cardinality(DOMAIN fnName) + 1
                   made == createValueName({fnName[g] : g \in DOMAIN fnName},
                               fnName[oldFunction] \o <<".">> \o Suffix,
                               LastUnique)
                   names == [g \in DOMAIN fnName \cup {Outlined} |->
                                IF g = Outlined THEN made.name ELSE fnName[g]]
                   FnName == Replace(names[Outlined])
                   set == setName(names, Outlined, FnName, made.LastUnique)
               IN /\ fnName' = [names EXCEPT ![Outlined] = set.name]
                  /\ LastUnique' = set.LastUnique
                  /\ blockParent' = [blockParent EXCEPT ![BBlock.id] = Outlined]
                  /\ lastOp' = ExtractOp(Func, BBlock,
                                   [kind |-> "Function", id |-> Outlined],
                                   Outlined, "",
                                   <<"extractCodeRegion", "getName", "replace",
                                     "setName", "return">>)
            /\ nExtract' = nExtract + 1
            /\ Foreign(Func, BBlock)
            /\ UNCHANGED <<status, eligible, isNVPTX>>
       ELSE \* extractCodeRegion returns nullptr, and Outlined->getName() is
            \* a call through a null pointer: undefined behaviour.  It traps;
            \* or it does not and the null check after it is reached; or the
            \* compiler, entitled to take Outlined for non-null after the
            \* call, has dropped that check and NULL is returned.
            /\ \/ /\ status' = "crashed"
                  /\ lastOp' = ExtractOp(Func, BBlock, NULL, NULL, "",
                                   <<"extractCodeRegion", "getName">>)
               \/ /\ status' = "fatal"
                  /\ lastOp' = ExtractOp(Func, BBlock, NULL, NULL,
                                   "extractCodeRegion failed, not eligible",
                                   <<"extractCodeRegion", "getName", "replace",
                                     "setName", "report_fatal_error">>)
               \/ /\ status' = "running"
                  /\ lastOp' = ExtractOp(Func, BBlock, NULL, NULL, "",
                                   <<"extractCodeRegion", "getName", "replace",
                                     "setName", "return">>)
            /\ Foreign(Func, BBlock)
            /\ UNCHANGED <<fnName, blockParent, eligible, LastUnique, isNVPTX,
                           nExtract>>
    /\ OthersOfExtract

NextExtract ==
    \E Func \in ExtractValues, BBlock \in ExtractValues :
        LLVMPY_ExtractBasicBlock(Func, BBlock)

\* ------------------------------------------------------------ specifications
Common ==
    /\ status = "running"
    /\ lastOp = Op("", NULL, NULL, "")

AttrInit ==
    /\ attrList \in AttrLists
    /\ attrSet \in AttrSets
    /\ heap = EmptyFn
    /\ created = {}
    /\ disposed = {}
    /\ nadv = EmptyFn
    /\ over = EmptyFn

KindInit ==
    /\ subject = NULL
    /\ answers = [asked |-> {}, yes |-> {}]

PmbInit ==
    /\ pmb = EmptyFn
    /\ lastSet = EmptyFn

ExtractInit ==
    /\ fnName \in {n \in [Functions -> FunctionNames] :
                     \A f, g \in Functions : f # g => n[f] # n[g]}
    /\ blockParent = InitialParent
    /\ eligible \in [Blocks -> BOOLEAN]
    /\ LastUnique = 0
    /\ isNVPTX \in BOOLEAN
    /\ nExtract = 0
    /\ foreign = FALSE

\* One fixed state of a component, for the specifications of the others.
AttrIdle == AttrInit /\ attrList = <<>> /\ attrSet = <<>>

ExtractIdle ==
    /\ ExtractInit
    /\ fnName = [f \in Functions |-> [i \in 1 .. f |-> "f"]]
    /\ eligible = [b \in Blocks |-> TRUE]
    /\ ~isNVPTX

Init ==
    /\ Common
    /\ AttrInit /\ KindInit /\ PmbInit /\ ExtractInit

Next == NextAttr \/ NextKind \/ NextPMB \/ NextExtract

\* The whole bridge.
Spec == Init /\ [][Next]_vars

\* The two components share no state, and the operations of each are checked
\* in a specification of its own.
InitAttr ==
    /\ Common
    /\ AttrInit /\ KindInit /\ PmbInit /\ ExtractIdle

SpecAttr == InitAttr /\ [][NextAttr]_vars

InitKind ==
    /\ Common
    /\ AttrIdle /\ KindInit /\ PmbInit /\ ExtractIdle

SpecKind == InitKind /\ [][NextKind]_vars

InitPMB ==
    /\ Common
    /\ AttrIdle /\ KindInit /\ PmbInit /\ ExtractIdle

SpecPMB == InitPMB /\ [][NextPMB]_vars

InitExtract ==
    /\ Common
    /\ AttrIdle /\ KindInit /\ PmbInit /\ ExtractInit

SpecExtract == InitExtract /\ [][NextExtract]_vars

\* -------------------------------------------------------------- properties
Running == status = "running"

ListCtorNames ==
    {"LLVMPY_FunctionAttributesIter", "LLVMPY_CallInstAttributesIter",
     "LLVMPY_InvokeInstAttributesIter"}

SetCtorNames == {"LLVMPY_ArgumentAttributesIter", "LLVMPY_GlobalAttributesIter"}

CtorNames == ListCtorNames \cup SetCtorNames

\* The class of value each cursor constructor unwraps its handle to.
Required(name) ==
    CASE name = "LLVMPY_FunctionAttributesIter" -> "Function"
      [] name = "LLVMPY_ArgumentAttributesIter" -> "Argument"
      [] name = "LLVMPY_CallInstAttributesIter" -> "CallInst"
      [] name = "LLVMPY_InvokeInstAttributesIter" -> "InvokeInst"
      [] name = "LLVMPY_GlobalAttributesIter" -> "GlobalVariable"

Ran(step) == \E i \in 1 .. Len(lastOp.steps) : lastOp.steps[i] = step

\* C1: an advance of a list cursor created over a list of N groups returns,
\* when it is one of the first N advances (the k-th), a live set cursor
\* standing at the start of the k-th group, and returns NULL when it is the
\* (N+1)th or a later one.
C1_ListIterNext ==
    (Running /\ lastOp.op = "LLVMPY_AttributeListIterNext") =>
        LET GI == lastOp.arg
            N == Len(over[GI])
            k == nadv[GI]
        IN /\ k <= N =>
                /\ lastOp.ret # NULL
                /\ lastOp.ret \in DOMAIN heap
                /\ heap[lastOp.ret] =
                       [type |-> "set",
                        cur |-> [arr |-> over[GI][k], idx |-> 1],
                        end |-> [arr |-> over[GI][k],
                                 idx |-> Len(over[GI][k]) + 1]]
           /\ k > N => lastOp.ret = NULL

\* C1 witness: over a list of at least two groups, the advance after the last
\* group has returned NULL.
C1_Witness ==
    /\ Running
    /\ lastOp.op = "LLVMPY_AttributeListIterNext"
    /\ Len(over[lastOp.arg]) >= 2
    /\ over[lastOp.arg] = attrList
    /\ nadv[lastOp.arg] = Len(over[lastOp.arg]) + 1
    /\ lastOp.ret = NULL

\* C2: an advance of a set cursor created over a set of M attributes returns,
\* when it is one of the first M advances (the k-th), the k-th attribute of
\* the set, a non-null handle, and returns NULL when it is the (M+1)th or a
\* later one.
C2_SetIterNext ==
    (Running /\ lastOp.op = "LLVMPY_AttributeSetIterNext") =>
        LET GI == lastOp.arg
            M == Len(over[GI])
            k == nadv[GI]
        IN /\ k <= M => (lastOp.ret # NULL /\ lastOp.ret = over[GI][k])
           /\ k > M => lastOp.ret = NULL

\* C2 witness: over a set that has attributes, the advance after the last
\* attribute has returned NULL.
C2_Witness ==
    /\ Running
    /\ lastOp.op = "LLVMPY_AttributeSetIterNext"
    /\ Len(over[lastOp.arg]) >= 1
    /\ nadv[lastOp.arg] = Len(over[lastOp.arg]) + 1
    /\ lastOp.ret = NULL

GetterNames ==
    {"LLVMPY_PassManagerBuilderGetOptLevel",
     "LLVMPY_PassManagerBuilderGetSizeLevel",
     "LLVMPY_PassManagerBuilderGetDisableUnrollLoops",
     "LLVMPY_PassManagerBuilderGetLoopVectorize",
     "LLVMPY_PassManagerBuilderGetSLPVectorize"}

Levels == {"OptLevel", "SizeLevel"}

\* C3 as stated: a getter returns exactly the value last passed to the
\* setter of its property, whatever that value.
C3_ExactRoundTrip ==
    (lastOp.op \in GetterNames /\ lastOp.arg \in DOMAIN lastSet) =>
        lastOp.ret = lastSet[lastOp.arg]

\* C3 as amended: the getter of a level returns exactly the value last set;
\* the getter of a flag returns 1 when the value last set was not 0, and 0
\* when it was 0.
C3_RoundTrip ==
    (lastOp.op \in GetterNames /\ lastOp.arg \in DOMAIN lastSet) =>
        LET v == lastSet[lastOp.arg]
        IN IF lastOp.arg \in Levels THEN lastOp.ret = v
           ELSE lastOp.ret = (IF v = 0 THEN 0 ELSE 1)

\* C3 witness: a flag was set to 2 and its getter has returned 1, and the
\* optimization level, set to the largest value, is held as set.
C3_Witness ==
    /\ lastOp.op = "LLVMPY_PassManagerBuilderGetLoopVectorize"
    /\ "LoopVectorize" \in DOMAIN lastSet
    /\ lastSet["LoopVectorize"] = 2
    /\ lastOp.ret = 1
    /\ "OptLevel" \in DOMAIN lastSet
    /\ lastSet["OptLevel"] > 3
    /\ pmb.OptLevel = lastSet["OptLevel"]

IsExtract == lastOp.op = "LLVMPY_ExtractBasicBlock"

\* C4 as stated: a call of the extraction with a handle that is no basic
\* block, or with a basic block of another function than the one given, has
\* ended in the fatal path and has not reached extractCodeRegion.
C4_ForeignBlockIsFatal ==
    (/\ IsExtract
     /\ lastOp.arg[1].kind = "Function"
     /\ \/ lastOp.arg[2].kind # "BasicBlock"
        \/ lastOp.parent # lastOp.arg[1].id) =>
        (status = "fatal" /\ ~Ran("extractCodeRegion"))

\* C5 as stated: when extractCodeRegion returned no function the call has
\* ended in the fatal path with the diagnostic of the failed extraction, and
\* has run no statement that uses the outlined function.
C5_FailedExtractionIsFatal ==
    (IsExtract /\ Ran("extractCodeRegion") /\ lastOp.outlined = NULL) =>
        /\ status = "fatal"
        /\ lastOp.diag = "extractCodeRegion failed, not eligible"
        /\ ~Ran("getName")
        /\ ~Ran("setName")

\* C6 as stated: a cursor constructor given a handle of another class than
\* the one it requires, and the extraction given a handle that is no
\* function or no basic block, have ended in the fatal path with a
\* diagnostic.
C6_KindMismatchIsFatal ==
    /\ (lastOp.op \in CtorNames /\ lastOp.arg.kind # Required(lastOp.op)) =>
           (status = "fatal" /\ lastOp.diag # "")
    /\ (/\ IsExtract
        /\ \/ lastOp.arg[1].kind # "Function"
           \/ lastOp.arg[2].kind # "BasicBlock") =>
           (status = "fatal" /\ lastOp.diag # "")

\* C7: the live cursors are the cursors created (by a constructor or by an
\* advance of a list cursor that returned one) less those passed to a
\* dispose call.
C7_LiveIsCreatedLessDisposed ==
    /\ DOMAIN heap = created \ disposed
    /\ disposed \subseteq created

\* C7 witness: after a dispose, a list cursor advanced past its end has
\* returned NULL and is live, and so is a set cursor.
C7_Witness ==
    /\ Running
    /\ lastOp.op = "LLVMPY_AttributeListIterNext"
    /\ lastOp.ret = NULL
    /\ lastOp.arg \in DOMAIN heap
    /\ disposed # {}
    /\ Cursors("set") # {}
    /\ Cardinality(created) = MaxCursors

\* C8 as stated: each of the five constructors has returned a list-level
\* cursor.
C8_AllListCursors ==
    (Running /\ lastOp.op \in CtorNames) =>
        (lastOp.ret \in DOMAIN heap /\ heap[lastOp.ret].type = "list")

\* C8 as amended: the constructors for a function, a call instruction and an
\* invoke instruction return a new list-level cursor standing at the start
\* of the entity's attribute list; the constructors for an argument and a
\* global return a new set-level cursor standing at the start of the
\* entity's attribute set.
C8_CursorLevels ==
    (Running /\ lastOp.op \in CtorNames) =>
        LET attrs == IF lastOp.op \in ListCtorNames THEN attrList ELSE attrSet
        IN /\ lastOp.ret \in DOMAIN heap
           /\ lastOp.ret = Cardinality(created)
           /\ heap[lastOp.ret] =
                  [type |-> IF lastOp.op \in ListCtorNames THEN "list"
                            ELSE "set",
                   cur |-> [arr |-> attrs, idx |-> 1],
                   end |-> [arr |-> attrs, idx |-> Len(attrs) + 1]]

\* C8 witness: the constructor for a global has returned a cursor over a set
\* that has attributes, after the one for a function returned one.
C8_Witness ==
    /\ Running
    /\ lastOp.op = "LLVMPY_GlobalAttributesIter"
    /\ Len(attrSet) >= 1
    /\ Cursors("list") # {}
    /\ heap[lastOp.ret].type = "set"

\* C9 as stated: the function a successful extraction returned has a name
\* without '.'.  (Stated of the calls that, like every call before them,
\* passed a block of the function given.)
C9_NoDotInName ==
    (IsExtract /\ Running /\ lastOp.outlined # NULL /\ ~foreign) =>
        \A i \in 1 .. Len(fnName[lastOp.outlined]) :
            fnName[lastOp.outlined][i] # "."

\* C10: of the four classification queries, once all were asked about one
\* attribute, exactly one has answered true (and at no time more than one).
C10_ExactlyOneKind ==
    /\ Cardinality(answers.yes) <= 1
    /\ answers.asked = Queries => Cardinality(answers.yes) = 1

\* C10 witness: the four queries were asked about a string attribute.
C10_Witness ==
    /\ answers.asked = Queries
    /\ KindID(subject) = "StringAttrEntry"
    /\ answers.yes = {"LLVMPY_AttributeIsString"}

=============================================================================
